---- MODULE Spec2Model ----
(***************************************************************************)
(* Model of Pascal_To_TF_Record.py: the conversion of a PascalVOC dataset  *)
(* directory (images plus .xml annotations) into one TFRecord file.        *)
(*                                                                         *)
(* Two specifications are given.                                           *)
(*   SpecFn  the function pascal_to_tf_record applied to one annotation,   *)
(*           one image, one label map and one value of skip_difficult.     *)
(*   Spec    the script: argument validation, globbing, pairing, and the   *)
(*           processing loop that writes one record per pair.              *)
(*                                                                         *)
(* Modelling conventions.                                                  *)
(*   - A file name is a sequence of one-character strings, so that the     *)
(*     glob patterns, Path.with_suffix and sorted() are computed on the    *)
(*     characters as the library computes them.                            *)
(*   - A float is an exact reduced fraction <<n, d>> with d > 0.           *)
(*   - bytes produced by str.encode('utf8') are the tagged value           *)
(*     <<"utf8", s>>; the bytes of an image file are an opaque token.      *)
(*   - An uncaught exception ends the process: pc = "raised" and error     *)
(*     names the exception.  The --verbose flag only adds prints and is    *)
(*     left out.                                                           *)
(***************************************************************************)
EXTENDS Integers, Sequences, FiniteSets, TLC

\* ------------------------------------------------------------------ bounds
\* Largest number of <object> elements of an annotation given to
\* pascal_to_tf_record in SpecFn.
MaxObjs == 2

\* -------------------------------------------------------------- constants
image_format == "JPEG"

\* ---------------------------------------------------------- input domains
Names == {"cat", "dog"}

Poses == {"Unspecified", "Left"}

\* Raw pixel boxes: the box (10,5,90,45), and one that leaves a
\* 100x50 image on every side.
Boxes ==
  { [xmin |-> 10, ymin |-> 5, xmax |-> 90, ymax |-> 45],
    [xmin |-> -10, ymin |-> 20, xmax |-> 120, ymax |-> 60] }

\* One <object> element as recursive_parse_xml_to_dict yields it (numbers
\* stand for their decimal text).
Objects ==
  [name : Names, bndbox : Boxes, difficult : {0, 1}, truncated : {0, 1},
   pose : Poses]

\* <size> of the annotation: <<width, height>>.  A zero width is accepted
\* by the parser and makes the division raise.
Sizes == { <<100, 50>>, <<0, 50>> }

SeqsUpTo(S, n) == UNION { [1..k -> S] : k \in 0..n }

\* The "annotation" dict.  The key 'object' is present exactly when there
\* is at least one <object> element, i.e. when object is not empty.
PascalDicts(S, n) ==
  { [filename |-> "img", size |-> sz, object |-> os] :
      sz \in Sizes, os \in SeqsUpTo(S, n) }

AllIds == [cat |-> 1, dog |-> 2]

\* Label maps: any subset of the names, with their ids.
LabelMaps == { [n \in S |-> AllIds[n]] : S \in SUBSET Names }

\* Result of PIL.Image.open(...).format for the files of the dataset.
Formats == {"JPEG", "PNG"}

\* ------------------------------------------------------------- arithmetic
Abs(n) == IF n < 0 THEN -n ELSE n

RECURSIVE GCD(_, _)
GCD(a, b) == IF b = 0 THEN a ELSE GCD(b, a % b)

\* float(n) / d for d > 0, as an exact reduced fraction.
Frac(n, d) == LET g == GCD(Abs(n), d) IN << n \div g, d \div g >>

Utf8(s) == << "utf8", s >>

Sha256(bytes) == << "sha256", bytes >>

\* bool(int(s)) and int(b)
ToBool(n) == n # 0

BoolToInt(b) == IF b THEN 1 ELSE 0

\* --------------------------------------------------- pascal_to_tf_record
\* The nine per-object lists; err: the exception raised so far; warned: the
\* number of "Label skipped" warnings printed (line 148).
EmptyLists ==
  [ x_min |-> <<>>, y_min |-> <<>>, x_max |-> <<>>, y_max |-> <<>>,
    classes |-> <<>>, classes_text |-> <<>>, truncated |-> <<>>,
    poses |-> <<>>, difficult_obj |-> <<>>, err |-> "none", warned |-> 0 ]

\* The test of line 147.
SkipObject_neverSkips(obj, skip_difficult) == FALSE

SkipObject(obj, skip_difficult) == skip_difficult /\ ToBool(obj.difficult)

\* Lines 155-158: the four divisions.
NormBox_yByWidth(obj, width, height) ==
  [ xmin |-> Frac(obj.bndbox.xmin, width),
    ymin |-> Frac(obj.bndbox.ymin, width),
    xmax |-> Frac(obj.bndbox.xmax, width),
    ymax |-> Frac(obj.bndbox.ymax, width) ]

NormBox(obj, width, height) ==
  [ xmin |-> Frac(obj.bndbox.xmin, width),
    ymin |-> Frac(obj.bndbox.ymin, height),
    xmax |-> Frac(obj.bndbox.xmax, width),
    ymax |-> Frac(obj.bndbox.ymax, height) ]

\* Lines 154-162 for a retained object.  The statements run in order, so an
\* exception leaves the lists appended before it longer than the others.
AppendObject_defaultId(l, obj, width, height, label_map) ==
  LET l1 == [l EXCEPT !.difficult_obj = Append(@, BoolToInt(ToBool(obj.difficult)))]
  IN  IF width = 0 THEN [l1 EXCEPT !.err = "ZeroDivisionError"]
      ELSE IF height = 0
      THEN [l1 EXCEPT !.x_min = Append(@, Frac(obj.bndbox.xmin, width)),
                      !.err = "ZeroDivisionError"]
      ELSE
        LET b  == NormBox(obj, width, height)
            id == IF obj.name \in DOMAIN label_map THEN label_map[obj.name]
                  ELSE 0
        IN  [l1 EXCEPT !.x_min = Append(@, b.xmin),
                       !.y_min = Append(@, b.ymin),
                       !.x_max = Append(@, b.xmax),
                       !.y_max = Append(@, b.ymax),
                       !.classes_text = Append(@, Utf8(obj.name)),
                       !.classes = Append(@, id),
                       !.truncated = Append(@, obj.truncated),
                       !.poses = Append(@, Utf8(obj.pose))]

AppendObject(l, obj, width, height, label_map) ==
  LET l1 == [l EXCEPT !.difficult_obj = Append(@, BoolToInt(ToBool(obj.difficult)))]
  IN  IF width = 0 THEN [l1 EXCEPT !.err = "ZeroDivisionError"]
      ELSE IF height = 0
      THEN [l1 EXCEPT !.x_min = Append(@, Frac(obj.bndbox.xmin, width)),
                      !.err = "ZeroDivisionError"]
      ELSE
        LET b  == NormBox(obj, width, height)
            l2 == [l1 EXCEPT !.x_min = Append(@, b.xmin),
                             !.y_min = Append(@, b.ymin),
                             !.x_max = Append(@, b.xmax),
                             !.y_max = Append(@, b.ymax),
                             !.classes_text = Append(@, Utf8(obj.name))]
        IN  IF obj.name \notin DOMAIN label_map
            THEN [l2 EXCEPT !.err = "KeyError"]
            ELSE [l2 EXCEPT !.classes = Append(@, label_map[obj.name]),
                            !.truncated = Append(@, obj.truncated),
                            !.poses = Append(@, Utf8(obj.pose))]

\* Lines 140-162: the loop over pascal_dict['object'], from index i on.
\* (An annotation without 'object' has the empty sequence.)
RECURSIVE ObjectLoop_difficultBeforeSkip(_, _, _, _, _, _, _)
ObjectLoop_difficultBeforeSkip(objs, i, l, width, height, label_map, skip_difficult) ==
  IF i > Len(objs) \/ l.err # "none" THEN l
  ELSE IF SkipObject(objs[i], skip_difficult)
  THEN ObjectLoop_difficultBeforeSkip(objs, i + 1,
         [l EXCEPT !.difficult_obj = Append(@, BoolToInt(ToBool(objs[i].difficult))),
                   !.warned = @ + 1],
         width, height, label_map, skip_difficult)
  ELSE ObjectLoop_difficultBeforeSkip(objs, i + 1,
         AppendObject(l, objs[i], width, height, label_map),
         width, height, label_map, skip_difficult)

RECURSIVE ObjectLoop_lookupBeforeSkip(_, _, _, _, _, _, _)
ObjectLoop_lookupBeforeSkip(objs, i, l, width, height, label_map, skip_difficult) ==
  IF i > Len(objs) \/ l.err # "none" THEN l
  ELSE IF objs[i].name \notin DOMAIN label_map
  THEN [l EXCEPT !.err = "KeyError"]
  ELSE IF SkipObject(objs[i], skip_difficult)
  THEN ObjectLoop_lookupBeforeSkip(objs, i + 1, [l EXCEPT !.warned = @ + 1],
         width, height, label_map, skip_difficult)
  ELSE ObjectLoop_lookupBeforeSkip(objs, i + 1,
         AppendObject(l, objs[i], width, height, label_map),
         width, height, label_map, skip_difficult)

RECURSIVE ObjectLoop(_, _, _, _, _, _, _)
ObjectLoop(objs, i, l, width, height, label_map, skip_difficult) ==
  IF i > Len(objs) \/ l.err # "none" THEN l
  ELSE IF SkipObject(objs[i], skip_difficult)
  THEN ObjectLoop(objs, i + 1, [l EXCEPT !.warned = @ + 1],
                  width, height, label_map, skip_difficult)
  ELSE ObjectLoop(objs, i + 1,
                  AppendObject(l, objs[i], width, height, label_map),
                  width, height, label_map, skip_difficult)

\* Lines 165-184: the tf.Example.
Example(pascal_dict, image, width, height, l) ==
  [ height |-> height, width |-> width,
    filename |-> Utf8(pascal_dict.filename),
    source_id |-> Utf8(pascal_dict.filename),
    key |-> Utf8(Sha256(image.bytes)),
    encoded |-> image.bytes,
    format |-> Utf8("jpeg"),
    xmin |-> l.x_min, xmax |-> l.x_max, ymin |-> l.y_min, ymax |-> l.y_max,
    text |-> l.classes_text, label |-> l.classes,
    difficult |-> l.difficult_obj, truncated |-> l.truncated,
    view |-> l.poses ]

Raised(e, n) == [ok |-> FALSE, error |-> e, warned |-> n]

\* pascal_to_tf_record: the record, or the exception that leaves it.
PascalToTfRecord(pascal_dict, image, label_map, skip_difficult) ==
  IF image.format # image_format THEN Raised("ValueError", 0)
  ELSE
    LET width  == pascal_dict.size[1]
        height == pascal_dict.size[2]
        l == ObjectLoop(pascal_dict.object, 1, EmptyLists, width, height,
                        label_map, skip_difficult)
    IN  IF l.err # "none" THEN Raised(l.err, l.warned)
        ELSE [ok |-> TRUE, warned |-> l.warned,
              example |-> Example(pascal_dict, image, width, height, l)]

\* ------------------------------------------------------------ file names
image_pattern_class1 == {".", "j", "p", "e", "g"}

image_pattern_class2 == {".", "j", "p", "g"}

\* Path.glob("*[.jpeg][.jpg]"): any name whose last two characters are one
\* of ".jpeg" followed by one of ".jpg".
MatchImagePattern(name) ==
  /\ Len(name) >= 2
  /\ name[Len(name) - 1] \in image_pattern_class1
  /\ name[Len(name)] \in image_pattern_class2

\* Path.glob("*.xml")
MatchLabelPattern(name) ==
  /\ Len(name) >= 4
  /\ SubSeq(name, Len(name) - 3, Len(name)) = <<".", "x", "m", "l">>

label_ext == <<".", "x", "m", "l">>

\* str.rfind('.'): the last index of a dot, 0 when there is none.
RECURSIVE RFindDot(_, _)
RFindDot(name, i) ==
  IF i = 0 THEN 0 ELSE IF name[i] = "." THEN i ELSE RFindDot(name, i - 1)

\* PurePath.suffix: from the last dot on, unless the dot is the first or
\* the last character.
Suffix(name) ==
  LET i == RFindDot(name, Len(name))
  IN  IF 1 < i /\ i < Len(name) THEN SubSeq(name, i, Len(name)) ELSE <<>>

\* PurePath.with_suffix
WithSuffix(name, suffix) ==
  SubSeq(name, 1, Len(name) - Len(Suffix(name))) \o suffix

\* ord() of the characters the file names use.
Code(c) ==
  CASE c = "." -> 46  [] c = "a" -> 97  [] c = "b" -> 98  [] c = "e" -> 101
    [] c = "g" -> 103 [] c = "j" -> 106 [] c = "l" -> 108 [] c = "m" -> 109
    [] c = "n" -> 110 [] c = "p" -> 112 [] c = "x" -> 120

\* s < t for names of one directory: the order of str.
RECURSIVE LexLess(_, _)
LexLess(s, t) ==
  IF t = <<>> THEN FALSE
  ELSE IF s = <<>> THEN TRUE
  ELSE IF Code(Head(s)) # Code(Head(t)) THEN Code(Head(s)) < Code(Head(t))
  ELSE LexLess(Tail(s), Tail(t))

\* sorted(): the names of S in ascending order.
RECURSIVE Sorted(_)
Sorted(S) ==
  IF S = {} THEN <<>>
  ELSE LET m == CHOOSE x \in S : \A y \in S \ {x} : LexLess(x, y)
       IN  << m >> \o Sorted(S \ {m})

\* x in list
Contains(list, x) == \E j \in 1..Len(list) : list[j] = x

\* The names a dataset directory may hold.
ImageFiles ==
  { <<"a", ".", "j", "p", "e", "g">>, <<"a", ".", "j", "p", "g">>,
    <<"b", ".", "j", "p", "g">> }

LabelFiles == { <<"a", ".", "x", "m", "l">>, <<"b", ".", "x", "m", "l">> }

FileNames == ImageFiles \cup LabelFiles

\* ----------------------------------------------------- dataset contents
\* Largest number of <object> elements of an annotation file of the
\* dataset directory.
MaxXmlObjs == 2

\* The objects of annotation files: a cat that is not difficult and a dog
\* that is, with the same box.
XmlObjects ==
  { o \in Objects :
      /\ o.bndbox = [xmin |-> 10, ymin |-> 5, xmax |-> 90, ymax |-> 45]
      /\ o.truncated = 0
      /\ o.pose = "Unspecified"
      /\ o.difficult = (IF o.name = "dog" THEN 1 ELSE 0) }

DefaultDict == [filename |-> "img", size |-> <<100, 50>>, object |-> <<>>]

\* Contents of an .xml file: a well-formed annotation of a 100x50 image, or
\* text that etree.fromstring rejects.
XmlContents ==
  { [wellformed |-> TRUE, annotation |-> d] :
      d \in { x \in PascalDicts(XmlObjects, MaxXmlObjs) : x.size = <<100, 50>> } }
  \cup { [wellformed |-> FALSE, annotation |-> DefaultDict] }

\* Contents of the label map file: a label map, or text that
\* get_label_map_dict rejects.
LabelMapContents ==
  { [valid |-> TRUE, map |-> m] : m \in LabelMaps }
  \cup { [valid |-> FALSE, map |-> << >>] }

labelmap_ext == ".pbtxt"

output_ext == ".record"

\* ------------------------------------------------------------------ state
VARIABLES
  fn_in,    \* SpecFn: the arguments of the call
  fn_pc,    \* SpecFn: "call" before the call, "done" after it
  fn_out,   \* SpecFn: the result of the call
  args,            \* the parsed command line
  dataset_files,   \* names of the files of the dataset directory
  xml_of,          \* contents of each annotation file
  format_of,       \* PIL format of each image file
  label_map_file,  \* contents of the label map file
  output_at_start, \* the output path before the run
  output,          \* the output path: "absent", "old" (the file that was
                   \* there before the run, untouched), "dir", or "new"
                   \* (the file the writer created)
  parent_exists,   \* whether the parent directory of the output exists
  pc,              \* position in the script
  error,           \* the uncaught exception, "none" if there is none
  stdout,          \* the messages printed
  input_images, input_labels, input_pairs,
  img_idx,               \* index in input_images of the pairing loop
  record_writer,   \* "none", "open" or "closed"
  label_map_dict,
  pair_idx,               \* index in input_pairs of the processing loop
  dict_from_xml,
  tf_record,
  reads,           \* names of the dataset files read, in order
  written          \* the records of the file the writer writes

fnvars == << fn_in, fn_pc, fn_out >>

inputs ==
  << args, dataset_files, xml_of, format_of, label_map_file, output_at_start >>

NoDataset ==
  /\ dataset_files = {}
  /\ xml_of = [f \in LabelFiles |-> [wellformed |-> TRUE, annotation |-> DefaultDict]]
  /\ format_of = [f \in ImageFiles |-> image_format]

mainvars ==
  << inputs, output, parent_exists, pc, error, stdout, input_images,
     input_labels, input_pairs, img_idx, record_writer, label_map_dict, pair_idx,
     dict_from_xml, tf_record, reads, written >>

vars == << fnvars, mainvars >>

Msg(level, text, n, file) ==
  [level |-> level, text |-> text, n |-> n, file |-> file]

Args ==
  [ dataset : {"missing", "file", "dir"},
    label_map : {"missing", "dir", "file"},
    label_map_suffix : {".pbtxt", ".txt"},
    output_suffix : {".record", ".tfrecord"},
    force : BOOLEAN,
    skip_difficult : BOOLEAN ]

\* The state before the first statement runs, with no file of the dataset
\* and no output.
Idle ==
  /\ args = [dataset |-> "missing", label_map |-> "missing",
             label_map_suffix |-> ".pbtxt", output_suffix |-> ".record",
             force |-> FALSE, skip_difficult |-> FALSE]
  /\ NoDataset
  /\ label_map_file = [valid |-> FALSE, map |-> << >>]
  /\ output_at_start = "absent"
  /\ output = "absent"
  /\ parent_exists = TRUE

Start ==
  /\ pc = "start"
  /\ error = "none"
  /\ stdout = <<>>
  /\ input_images = <<>>
  /\ input_labels = <<>>
  /\ input_pairs = <<>>
  /\ img_idx = 1
  /\ record_writer = "none"
  /\ label_map_dict = << >>
  /\ pair_idx = 1
  /\ dict_from_xml = DefaultDict
  /\ tf_record = << >>
  /\ reads = <<>>
  /\ written = <<>>

\* ----------------------------------------------------------------- SpecFn
FnInit ==
  /\ fn_in \in [ pascal_dict : PascalDicts(Objects, MaxObjs),
                 image : [format : Formats, bytes : {"bytes"}],
                 label_map : LabelMaps,
                 skip_difficult : BOOLEAN ]
  /\ fn_pc = "call"
  /\ fn_out = Raised("none", 0)
  /\ Idle
  /\ Start

FnCall ==
  /\ fn_pc = "call"
  /\ fn_pc' = "done"
  /\ fn_out' = PascalToTfRecord(fn_in.pascal_dict, fn_in.image,
                                fn_in.label_map, fn_in.skip_difficult)
  /\ UNCHANGED << fn_in, mainvars >>

FnNext == FnCall

SpecFn == FnInit /\ [][FnNext]_vars

\* ------------------------------------------------------------------- Spec
\* A command line, a label map file and an output path; a path holds an
\* output file or directory only if its parent exists.  Nothing before line
\* 250 looks into the dataset directory: its listing and the contents of
\* its files are chosen when GlobInputs first reads it, and stay as chosen.
Init ==
  /\ fn_in = [ pascal_dict |-> DefaultDict,
               image |-> [format |-> image_format, bytes |-> "bytes"],
               label_map |-> << >>, skip_difficult |-> FALSE ]
  /\ fn_pc = "idle"
  /\ fn_out = Raised("none", 0)
  /\ args \in Args
  /\ NoDataset
  /\ label_map_file \in LabelMapContents
  /\ args.label_map # "file" => label_map_file = [valid |-> FALSE, map |-> << >>]
  /\ output \in {"absent", "old", "dir"}
  /\ output_at_start = output
  /\ parent_exists \in BOOLEAN
  /\ output # "absent" => parent_exists
  /\ Start

Raise(e) ==
  /\ pc' = "raised"
  /\ error' = e

\* Lines 195-198
WarnForce ==
  /\ pc = "start"
  /\ stdout' = IF args.force THEN Append(stdout, Msg("WARN", "force", 0, <<>>))
               ELSE stdout
  /\ pc' = "check_dataset"
  /\ UNCHANGED << fnvars, inputs, output, parent_exists, error, input_images,
                  input_labels, input_pairs, img_idx, record_writer, label_map_dict,
                  pair_idx, dict_from_xml, tf_record, reads, written >>

\* Lines 201-205
ValidateDataset ==
  /\ pc = "check_dataset"
  /\ IF args.dataset = "missing" THEN Raise("FileNotFoundError")
     ELSE IF args.dataset = "file" THEN Raise("ValueError")
     ELSE pc' = "check_label_map" /\ UNCHANGED error
  /\ UNCHANGED << fnvars, inputs, output, parent_exists, stdout, input_images,
                  input_labels, input_pairs, img_idx, record_writer, label_map_dict,
                  pair_idx, dict_from_xml, tf_record, reads, written >>

\* Lines 208-215
ValidateLabelMap ==
  /\ pc = "check_label_map"
  /\ IF args.label_map = "missing" THEN Raise("FileNotFoundError")
     ELSE IF args.label_map # "file" THEN Raise("ValueError")
     ELSE IF args.label_map_suffix # labelmap_ext THEN Raise("ValueError")
     ELSE pc' = "check_output" /\ UNCHANGED error
  /\ UNCHANGED << fnvars, inputs, output, parent_exists, stdout, input_images,
                  input_labels, input_pairs, img_idx, record_writer, label_map_dict,
                  pair_idx, dict_from_xml, tf_record, reads, written >>

\* The test of line 221: the output is an existing file and -f is absent.
OutputExistsNoForce_unchecked == FALSE

OutputExistsNoForce == output \in {"old", "new"} /\ ~args.force

\* Lines 218-244
ValidateOutput ==
  /\ pc = "check_output"
  /\ IF args.output_suffix # output_ext
     THEN Raise("FileExistsError") /\ UNCHANGED << output, parent_exists >>
     ELSE IF OutputExistsNoForce
     THEN Raise("FileExistsError") /\ UNCHANGED << output, parent_exists >>
     ELSE IF output \in {"old", "new"} /\ args.force
     THEN /\ output' = "absent"
          /\ pc' = "glob"
          /\ UNCHANGED << error, parent_exists >>
     ELSE IF output = "dir"
     THEN Raise("ValueError") /\ UNCHANGED << output, parent_exists >>
     ELSE IF ~parent_exists /\ ~args.force
     THEN Raise("ValueError") /\ UNCHANGED << output, parent_exists >>
     ELSE /\ parent_exists' = TRUE
          /\ pc' = "glob"
          /\ UNCHANGED << error, output >>
  /\ UNCHANGED << fnvars, inputs, stdout, input_images, input_labels,
                  input_pairs, img_idx, record_writer, label_map_dict, pair_idx,
                  dict_from_xml, tf_record, reads, written >>

\* Lines 250-253.  The directory is any set of the file names, each
\* annotation file with any contents and each image with any format; files
\* that are not there have no contents of their own.
GlobInputs ==
  /\ pc = "glob"
  /\ dataset_files' \in SUBSET FileNames
  /\ xml_of' \in [LabelFiles -> XmlContents]
  /\ \A f \in LabelFiles \ dataset_files' :
       xml_of'[f] = [wellformed |-> TRUE, annotation |-> DefaultDict]
  /\ format_of' \in [ImageFiles -> Formats]
  /\ \A f \in ImageFiles \ dataset_files' : format_of'[f] = image_format
  /\ LET images == Sorted({ f \in dataset_files' : MatchImagePattern(f) })
         labels == Sorted({ f \in dataset_files' : MatchLabelPattern(f) })
     IN  /\ input_images' = images
         /\ input_labels' = labels
         /\ stdout' = stdout \o << Msg("INFO", "images", Len(images), <<>>),
                                   Msg("INFO", "labels", Len(labels), <<>>) >>
  /\ pc' = "pairing"
  /\ UNCHANGED << fnvars, args, label_map_file, output_at_start, output,
                  parent_exists, error, input_pairs, img_idx, record_writer,
                  label_map_dict, pair_idx, dict_from_xml, tf_record, reads,
                  written >>

\* Lines 261-278: one iteration of the pairing loop.
PairImage ==
  /\ pc = "pairing"
  /\ img_idx <= Len(input_images)
  /\ LET image_file == input_images[img_idx]
         image_label_test == WithSuffix(image_file, label_ext)
     IN  IF Contains(input_labels, image_label_test)
         THEN /\ input_pairs' = Append(input_pairs, << image_file, image_label_test >>)
              /\ UNCHANGED stdout
         ELSE /\ stdout' = Append(stdout, Msg("WARN", "no label", 0, image_file))
              /\ UNCHANGED input_pairs
  /\ img_idx' = img_idx + 1
  /\ UNCHANGED << fnvars, inputs, output, parent_exists, pc, error,
                  input_images, input_labels, record_writer, label_map_dict,
                  pair_idx, dict_from_xml, tf_record, reads, written >>

\* The test of line 289.
LabelsUnused(pairs, labels) == Len(pairs) < Len(labels)

\* Lines 281-291, after the pairing loop.
PairSummary ==
  /\ pc = "pairing"
  /\ img_idx > Len(input_images)
  /\ stdout' =
       stdout
       \o << Msg("INFO", "pairs", Len(input_pairs), <<>>) >>
       \o (IF Len(input_pairs) < Len(input_images)
           THEN << Msg("WARN", "images unused",
                       Len(input_images) - Len(input_pairs), <<>>) >>
           ELSE <<>>)
       \o (IF LabelsUnused(input_pairs, input_labels)
           THEN << Msg("WARN", "labels unused",
                       Len(input_labels) - Len(input_pairs), <<>>) >>
           ELSE <<>>)
  /\ pc' = "open_writer"
  /\ UNCHANGED << fnvars, inputs, output, parent_exists, error, input_images,
                  input_labels, input_pairs, img_idx, record_writer, label_map_dict,
                  pair_idx, dict_from_xml, tf_record, reads, written >>

\* Line 296: TFRecordWriter creates the file, or truncates the one there.
OpenWriter ==
  /\ pc = "open_writer"
  /\ record_writer' = "open"
  /\ output' = "new"
  /\ written' = <<>>
  /\ pc' = "load_label_map"
  /\ UNCHANGED << fnvars, inputs, parent_exists, error, stdout, input_images,
                  input_labels, input_pairs, img_idx, label_map_dict, pair_idx,
                  dict_from_xml, tf_record, reads >>

\* Line 298
LoadLabelMap ==
  /\ pc = "load_label_map"
  /\ IF label_map_file.valid
     THEN /\ label_map_dict' = label_map_file.map
          /\ pc' = "loop"
          /\ UNCHANGED error
     ELSE Raise("ParseError") /\ UNCHANGED label_map_dict
  /\ UNCHANGED << fnvars, inputs, output, parent_exists, stdout, input_images,
                  input_labels, input_pairs, img_idx, record_writer, pair_idx,
                  dict_from_xml, tf_record, reads, written >>

\* Lines 300-312: the next pair, its annotation read and parsed.
ReadLabel ==
  /\ pc = "loop"
  /\ pair_idx <= Len(input_pairs)
  /\ LET label_file == input_pairs[pair_idx][2]
     IN  /\ reads' = Append(reads, label_file)
         /\ IF xml_of[label_file].wellformed
            THEN /\ dict_from_xml' = xml_of[label_file].annotation
                 /\ pc' = "convert"
                 /\ UNCHANGED error
            ELSE Raise("XMLSyntaxError") /\ UNCHANGED dict_from_xml
  /\ UNCHANGED << fnvars, inputs, output, parent_exists, stdout, input_images,
                  input_labels, input_pairs, img_idx, record_writer, label_map_dict,
                  pair_idx, tf_record, written >>

SkipWarnings(n) == [j \in 1..n |-> Msg("WARN", "label skipped", 0, <<>>)]

\* The image file as pascal_to_tf_record reads it.
ImageOf(image_file) ==
  [format |-> format_of[image_file], bytes |-> image_file]

ConvertPair_skipsFailedRecord ==
  /\ pc = "convert"
  /\ LET image_file == input_pairs[pair_idx][1]
         r == PascalToTfRecord(dict_from_xml, ImageOf(image_file),
                               label_map_dict, args.skip_difficult)
     IN  /\ reads' = Append(reads, image_file)
         /\ stdout' = stdout \o SkipWarnings(r.warned)
         /\ IF r.ok
            THEN /\ tf_record' = r.example
                 /\ pc' = "write"
                 /\ UNCHANGED pair_idx
            ELSE /\ pc' = "loop"
                 /\ pair_idx' = pair_idx + 1
                 /\ UNCHANGED tf_record
  /\ UNCHANGED << fnvars, inputs, output, parent_exists, error, input_images,
                  input_labels, input_pairs, img_idx, record_writer,
                  label_map_dict, dict_from_xml, written >>

\* Line 315: the call of pascal_to_tf_record for the pair; an exception it
\* raises is not caught.
ConvertPair ==
  /\ pc = "convert"
  /\ LET image_file == input_pairs[pair_idx][1]
         r == PascalToTfRecord(dict_from_xml, ImageOf(image_file),
                               label_map_dict, args.skip_difficult)
     IN  /\ reads' = Append(reads, image_file)
         /\ stdout' = stdout \o SkipWarnings(r.warned)
         /\ IF r.ok
            THEN /\ tf_record' = r.example
                 /\ pc' = "write"
                 /\ UNCHANGED error
            ELSE Raise(r.error) /\ UNCHANGED tf_record
  /\ UNCHANGED << fnvars, inputs, output, parent_exists, input_images,
                  input_labels, input_pairs, img_idx, record_writer, label_map_dict,
                  pair_idx, dict_from_xml, written >>

WriteRecord_prepends ==
  /\ pc = "write"
  /\ written' = << tf_record >> \o written
  /\ pair_idx' = pair_idx + 1
  /\ pc' = "loop"
  /\ UNCHANGED << fnvars, inputs, output, parent_exists, error, stdout,
                  input_images, input_labels, input_pairs, img_idx,
                  record_writer, label_map_dict, dict_from_xml, tf_record,
                  reads >>

\* Line 317
WriteRecord ==
  /\ pc = "write"
  /\ written' = Append(written, tf_record)
  /\ pair_idx' = pair_idx + 1
  /\ pc' = "loop"
  /\ UNCHANGED << fnvars, inputs, output, parent_exists, error, stdout,
                  input_images, input_labels, input_pairs, img_idx, record_writer,
                  label_map_dict, dict_from_xml, tf_record, reads >>

\* Line 321, after the last pair.
CloseWriter ==
  /\ pc = "loop"
  /\ pair_idx > Len(input_pairs)
  /\ record_writer' = "closed"
  /\ pc' = "done"
  /\ UNCHANGED << fnvars, inputs, output, parent_exists, error, stdout,
                  input_images, input_labels, input_pairs, img_idx, label_map_dict,
                  pair_idx, dict_from_xml, tf_record, reads, written >>

Next ==
  \/ WarnForce
  \/ ValidateDataset
  \/ ValidateLabelMap
  \/ ValidateOutput
  \/ GlobInputs
  \/ PairImage
  \/ PairSummary
  \/ OpenWriter
  \/ LoadLabelMap
  \/ ReadLabel
  \/ ConvertPair
  \/ WriteRecord
  \/ CloseWriter

Spec == Init /\ [][Next]_vars

\* ------------------------------------------------- claims about SpecFn
\* The nine per-object sequences of a tf.Example.
PerObject(e) ==
  << e.xmin, e.ymin, e.xmax, e.ymax, e.text, e.label, e.difficult,
     e.truncated, e.view >>

RECURSIVE Filter(_, _)
Filter(objs, drop) ==
  IF objs = <<>> THEN <<>>
  ELSE IF Head(objs) \in drop THEN Filter(Tail(objs), drop)
  ELSE << Head(objs) >> \o Filter(Tail(objs), drop)

\* The objects of the call that are not skipped, in declaration order.
FnRetained ==
  Filter(fn_in.pascal_dict.object,
         IF fn_in.skip_difficult THEN { o \in Objects : o.difficult # 0 }
         ELSE {})

FnReturned == fn_pc = "done" /\ fn_out.ok

\* q is the fraction x / w
IsQuotient(q, x, w) == q[2] > 0 /\ q[1] * w = x * q[2]

\* C1: in every record pascal_to_tf_record returns, the nine per-object
\* sequences have the length of the retained objects, and index i of each
\* describes the i-th retained object in declaration order.
C1_ParallelSequences ==
  FnReturned =>
    LET e == fn_out.example
        r == FnRetained
        w == fn_in.pascal_dict.size[1]
        h == fn_in.pascal_dict.size[2]
    IN  /\ \A k \in 1..9 : Len(PerObject(e)[k]) = Len(r)
        /\ \A i \in 1..Len(r) :
              /\ IsQuotient(e.xmin[i], r[i].bndbox.xmin, w)
              /\ IsQuotient(e.ymin[i], r[i].bndbox.ymin, h)
              /\ IsQuotient(e.xmax[i], r[i].bndbox.xmax, w)
              /\ IsQuotient(e.ymax[i], r[i].bndbox.ymax, h)
              /\ e.text[i] = Utf8(r[i].name)
              /\ r[i].name \in DOMAIN fn_in.label_map
              /\ e.label[i] = fn_in.label_map[r[i].name]
              /\ e.difficult[i] = (IF r[i].difficult # 0 THEN 1 ELSE 0)
              /\ e.truncated[i] = r[i].truncated
              /\ e.view[i] = Utf8(r[i].pose)

\* A record returned with skip_difficult set for an annotation whose first
\* object is difficult and whose second is not: one entry, the second object.
C1_Witness ==
  /\ FnReturned
  /\ fn_in.skip_difficult
  /\ Len(fn_in.pascal_dict.object) = 2
  /\ fn_in.pascal_dict.object[1].difficult = 1
  /\ fn_in.pascal_dict.object[2].difficult = 0
  /\ fn_in.pascal_dict.object[1].name # fn_in.pascal_dict.object[2].name
  /\ Len(fn_out.example.text) = 1
  /\ fn_out.example.text[1] = Utf8(fn_in.pascal_dict.object[2].name)

\* C2: a difficult object has no entry in the record when skip_difficult is
\* set (the record is still returned, empty if every object was skipped)
\* and has an entry with difficult = 1 when it is not set; an object that
\* is not difficult always has an entry, with difficult = 0.
C2_SkipDifficultPolicy ==
  LET objs == fn_in.pascal_dict.object
      easy == Filter(objs, { o \in Objects : o.difficult # 0 })
  IN
  /\ FnReturned =>
        LET e == fn_out.example IN
        IF fn_in.skip_difficult
        THEN /\ \A k \in 1..9 : Len(PerObject(e)[k]) = Len(easy)
             /\ \A j \in 1..Len(easy) :
                   /\ e.difficult[j] = 0
                   /\ e.text[j] = Utf8(easy[j].name)
                   /\ e.view[j] = Utf8(easy[j].pose)
                   /\ e.truncated[j] = easy[j].truncated
        ELSE /\ \A k \in 1..9 : Len(PerObject(e)[k]) = Len(objs)
             /\ \A i \in 1..Len(objs) :
                   /\ e.difficult[i] = (IF objs[i].difficult # 0 THEN 1 ELSE 0)
                   /\ e.text[i] = Utf8(objs[i].name)
  /\ ( /\ fn_pc = "done"
       /\ fn_in.skip_difficult
       /\ fn_in.image.format = image_format
       /\ easy = <<>> )
     => /\ fn_out.ok
        /\ \A k \in 1..9 : PerObject(fn_out.example)[k] = <<>>

\* skip_difficult set and every one of two objects difficult: the record is
\* returned with empty sequences, whatever the label map.
C2_Witness ==
  /\ FnReturned
  /\ fn_in.skip_difficult
  /\ Len(fn_in.pascal_dict.object) = 2
  /\ \A i \in 1..2 : fn_in.pascal_dict.object[i].difficult = 1
  /\ fn_out.example.difficult = <<>>
  /\ fn_out.example.text = <<>>

\* C3: the emitted box of a retained object is (xmin/W, ymin/H, xmax/W,
\* ymax/H), not clamped: a coordinate inside the image gives a value in
\* [0,1], one outside gives a fraction outside; (10,5,90,45) on 100x50
\* gives (0.1, 0.1, 0.9, 0.9).
InUnit(q) == 0 <= q[1] /\ q[1] <= q[2]

C3_Normalization ==
  FnReturned =>
    LET e == fn_out.example
        r == FnRetained
        W == fn_in.pascal_dict.size[1]
        H == fn_in.pascal_dict.size[2]
    IN  \A i \in 1..Len(r) :
          LET b == r[i].bndbox IN
          /\ IsQuotient(e.xmin[i], b.xmin, W)
          /\ IsQuotient(e.ymin[i], b.ymin, H)
          /\ IsQuotient(e.xmax[i], b.xmax, W)
          /\ IsQuotient(e.ymax[i], b.ymax, H)
          /\ InUnit(e.xmin[i]) <=> (0 <= b.xmin /\ b.xmin <= W)
          /\ InUnit(e.ymin[i]) <=> (0 <= b.ymin /\ b.ymin <= H)
          /\ InUnit(e.xmax[i]) <=> (0 <= b.xmax /\ b.xmax <= W)
          /\ InUnit(e.ymax[i]) <=> (0 <= b.ymax /\ b.ymax <= H)
          /\ ( b = [xmin |-> 10, ymin |-> 5, xmax |-> 90, ymax |-> 45]
               /\ W = 100 /\ H = 50 )
             => /\ e.xmin[i] = <<1, 10>> /\ e.ymin[i] = <<1, 10>>
                /\ e.xmax[i] = <<9, 10>> /\ e.ymax[i] = <<9, 10>>

\* A returned record whose first box is (10,5,90,45) and whose second
\* box leaves the image: (0.1, 0.1, 0.9, 0.9) and (-0.1, 0.4, 1.2, 1.2).
C3_Witness ==
  /\ FnReturned
  /\ fn_in.pascal_dict.size = <<100, 50>>
  /\ Len(fn_out.example.xmin) = 2
  /\ fn_in.pascal_dict.object[1].bndbox.xmin = 10
  /\ fn_in.pascal_dict.object[2].bndbox.xmin = -10
  /\ fn_out.example.ymin[1] = <<1, 10>>
  /\ fn_out.example.xmin[2] = <<-1, 10>>
  /\ fn_out.example.ymax[2] = <<6, 5>>

\* --------------------------------------------------- claims about Spec
PreconditionErrors == {"FileNotFoundError", "ValueError", "FileExistsError"}

BeforeGlob == {"start", "check_dataset", "check_label_map", "check_output"}

\* C4: when the output exists as a file and -f is absent, the run ends in
\* a precondition error before the directory is scanned, the writer opened
\* or a record processed, and the file stays as it was; an existing output
\* file is removed only with -f and after the dataset and label map checks
\* have passed.
C4_ExistingOutputProtected ==
  /\ (output_at_start = "old" /\ ~args.force) =>
       /\ output = "old"
       /\ pc \in BeforeGlob \cup {"raised"}
       /\ pc = "raised" => error \in PreconditionErrors
       /\ input_images = <<>> /\ input_labels = <<>> /\ input_pairs = <<>>
       /\ record_writer = "none"
       /\ reads = <<>>
       /\ written = <<>>
  /\ (output_at_start = "old" /\ output # "old") =>
       /\ args.force
       /\ args.dataset = "dir"
       /\ args.label_map = "file" /\ args.label_map_suffix = labelmap_ext
       /\ pc \notin {"start", "check_dataset", "check_label_map", "check_output"}

\* The run stopped at line 222 with the existing output file untouched,
\* all earlier checks having passed.
C4_Witness ==
  /\ output_at_start = "old"
  /\ ~args.force
  /\ args.dataset = "dir"
  /\ args.label_map = "file" /\ args.label_map_suffix = labelmap_ext
  /\ args.output_suffix = output_ext
  /\ pc = "raised"
  /\ error = "FileExistsError"
  /\ output = "old"

Min(a, b) == IF a < b THEN a ELSE b

Paired == pc \notin BeforeGlob \cup {"glob", "pairing"} /\ args.dataset = "dir"

\* C5: after pairing, pairs <= min(images found, labels found).
C5_PairsAtMostMin ==
  Paired => Len(input_pairs) <= Min(Len(input_images), Len(input_labels))

\* The annotation files that are the annotation of no pair.
UnpairedLabels ==
  { f \in { input_labels[j] : j \in 1..Len(input_labels) } :
      \A j \in 1..Len(input_pairs) : input_pairs[j][2] # f }

UnusedLabelsReported ==
  \E j \in 1..Len(stdout) :
    stdout[j].level = "WARN" /\ stdout[j].text = "labels unused"

\* C6: after pairing, the "labels unused" warning is printed exactly when
\* some annotation file found is the annotation of no pair, and it does not
\* end the run.
C6_UnusedLabelsDiagnostic ==
  Paired =>
    /\ UnusedLabelsReported <=> (UnpairedLabels # {})
    /\ pc = "open_writer" => error = "none"

\* The record of the j-th pair, or the exception pascal_to_tf_record raises
\* for it, from the files as they are and the label map of the file.
PairResult(j) ==
  PascalToTfRecord(xml_of[input_pairs[j][2]].annotation,
                   ImageOf(input_pairs[j][1]),
                   label_map_file.map, args.skip_difficult)

\* The objects of the j-th pair's annotation that are not skipped.
PairRetained(j) ==
  Filter(xml_of[input_pairs[j][2]].annotation.object,
         IF args.skip_difficult THEN { o \in Objects : o.difficult # 0 }
         ELSE {})

HasUnknownLabel(j) ==
  /\ label_map_file.valid
  /\ xml_of[input_pairs[j][2]].wellformed
  /\ \E n \in 1..Len(PairRetained(j)) :
       PairRetained(j)[n].name \notin DOMAIN label_map_file.map

\* C7: a pair whose annotation has a retained object with a label name that
\* is not in the label map gets no record at all: none is built for it and
\* none is written, and the loop does not go past it.
C7_UnknownLabelFailsRecord ==
  \A j \in 1..Len(input_pairs) :
    HasUnknownLabel(j) =>
      /\ pair_idx <= j
      /\ Len(written) < j
      /\ ~(pair_idx = j /\ pc = "write")
      /\ \A n \in 1..Len(written) : written[n].encoded # input_pairs[j][1]
      /\ (pair_idx = j /\ pc = "raised" /\ format_of[input_pairs[j][1]] = image_format)
           => error = "KeyError"

\* The run ended with KeyError on an annotation of two retained objects of
\* which the first is in the label map and the second is not.
C7_Witness ==
  /\ pc = "raised"
  /\ error = "KeyError"
  /\ Len(input_pairs) >= pair_idx
  /\ HasUnknownLabel(pair_idx)
  /\ Len(PairRetained(pair_idx)) = 2
  /\ PairRetained(pair_idx)[1].name \in DOMAIN label_map_dict
  /\ PairRetained(pair_idx)[2].name \notin DOMAIN label_map_dict
  /\ \A n \in 1..Len(written) : written[n].encoded # input_pairs[pair_idx][1]

RecordErrors == {"KeyError", "ValueError"}

\* The j-th pair is read and parsed, and pascal_to_tf_record raises for it.
RecordFails(j) ==
  /\ label_map_file.valid
  /\ xml_of[input_pairs[j][2]].wellformed
  /\ ~PairResult(j).ok
  /\ PairResult(j).error \in RecordErrors

RecordValid(j) ==
  /\ label_map_file.valid
  /\ xml_of[input_pairs[j][2]].wellformed
  /\ PairResult(j).ok

InRecords(j) ==
  \E n \in 1..Len(written) : written[n] = PairResult(j).example

\* C8 as stated: a record-level failure (unknown label, image not JPEG)
\* fails that record only; when the run has ended, every valid pair after
\* the failed one has its record in the output.
C8_FailureSkipsOnlyThatRecord ==
  pc \in {"done", "raised"} =>
    \A m, j \in 1..Len(input_pairs) :
      (m < j /\ RecordFails(m) /\ (\A n \in 1..(m - 1) : RecordValid(n))
         /\ RecordValid(j))
        => InRecords(j)

\* C8 amended: a record-level failure on a pair ends the run with that
\* exception: the loop never goes past the pair, no record of it or of a
\* later pair is written, and the run does not complete.
C8_FailureEndsRun ==
  \A j \in 1..Len(input_pairs) :
    RecordFails(j) =>
      /\ pair_idx <= j
      /\ Len(written) < j
      /\ pc # "done"
      /\ (pair_idx = j /\ pc \in {"write", "done", "raised"})
           => pc = "raised" /\ error = PairResult(j).error

\* The first pair failed with KeyError, the second pair is valid, and the
\* run has ended with nothing written.
C8_Witness ==
  /\ pc = "raised"
  /\ error = "KeyError"
  /\ pair_idx = 1
  /\ Len(input_pairs) >= 2
  /\ RecordFails(1)
  /\ RecordValid(2)
  /\ written = <<>>

InLoop == pc \in {"loop", "convert", "write", "done"}

\* C9: input_pairs is in ascending order of image path; the output holds
\* the records of the first pairs, one each and in that order; the files of
\* a pair are read only after the record of the pair before it is written;
\* a run that completes has written one record per pair.
C9_SequentialInOrder ==
  /\ \A a, b \in 1..Len(input_pairs) :
       a < b => LexLess(input_pairs[a][1], input_pairs[b][1])
  /\ Len(written) <= Len(input_pairs)
  /\ \A n \in 1..Len(written) :
       /\ RecordValid(n)
       /\ written[n] = PairResult(n).example
  /\ InLoop => Len(written) = pair_idx - 1
  /\ \A n \in 1..Len(reads) :
       /\ (n + 1) \div 2 <= Len(written) + 1
       /\ (n + 1) \div 2 <= Len(input_pairs)
       /\ reads[n] = input_pairs[(n + 1) \div 2][IF n % 2 = 1 THEN 2 ELSE 1]
  /\ pc = "done" => Len(written) = Len(input_pairs)

\* A completed run over three pairs, which share two annotation files.
C9_Witness ==
  /\ pc = "done"
  /\ Len(input_pairs) = 3
  /\ Len(written) = 3
  /\ Len(reads) = 6
  /\ written[1].encoded = <<"a", ".", "j", "p", "e", "g">>
  /\ written[3].encoded = <<"b", ".", "j", "p", "g">>

\* C10: once the writer is open, the run does not end without the writer
\* being closed, whether it completes or ends in an exception.
C10_WriterClosedAtExit ==
  (pc \in {"done", "raised"} /\ record_writer # "none")
    => record_writer = "closed"

\* ------------------------------------------ claims about SpecFn, continued
\* The names of the objects of the call that are not in the label map.
FnUnknown(objs) ==
  { n \in 1..Len(objs) : objs[n].name \notin DOMAIN fn_in.label_map }

\* The image is a JPEG and the declared size has no zero: nothing but a
\* label lookup can make the call fail.
FnOnlyLookupCanFail ==
  /\ fn_in.image.format = image_format
  /\ fn_in.pascal_dict.size[1] # 0
  /\ fn_in.pascal_dict.size[2] # 0

\* C11: labels are looked up for retained objects only.  With
\* skip_difficult set, a difficult object whose name is not in the label
\* map is dropped without failing the record, which is built from the other
\* objects; with skip_difficult not set the same object makes the call fail.
C11_LookupOnlyForRetained ==
  fn_pc = "done" =>
    LET objs == fn_in.pascal_dict.object
        r    == FnRetained
    IN
    /\ ( /\ fn_in.skip_difficult
         /\ FnOnlyLookupCanFail
         /\ \A n \in FnUnknown(objs) : objs[n].difficult # 0 )
       => /\ fn_out.ok
          /\ Len(fn_out.example.label) = Len(r)
          /\ \A n \in 1..Len(r) :
               /\ fn_out.example.text[n] = Utf8(r[n].name)
               /\ fn_out.example.label[n] = fn_in.label_map[r[n].name]
    /\ (~fn_in.skip_difficult /\ FnUnknown(objs) # {})
       => /\ ~fn_out.ok
          /\ FnOnlyLookupCanFail => fn_out.error = "KeyError"
    /\ ( /\ fn_in.skip_difficult
         /\ \E n \in FnUnknown(objs) : objs[n].difficult = 0 )
       => ~fn_out.ok

\* skip_difficult set, a difficult object whose name is not in the label
\* map followed by an object that is retained: a record of one entry.
C11_Witness ==
  /\ FnReturned
  /\ fn_in.skip_difficult
  /\ Len(fn_in.pascal_dict.object) = 2
  /\ fn_in.pascal_dict.object[1].difficult = 1
  /\ fn_in.pascal_dict.object[1].name \notin DOMAIN fn_in.label_map
  /\ fn_in.pascal_dict.object[2].difficult = 0
  /\ fn_out.example.text = << Utf8(fn_in.pascal_dict.object[2].name) >>
  /\ Len(fn_out.example.label) = 1

====
